---- MODULE Spec2Model ----
(***************************************************************************)
(* Model of the Wollok REPL session engine (commands/repl/repl.ts), its    *)
(* dynamic-diagram client (commands/repl/diagram.ts, first half) and the   *)
(* test runner with its target resolution (second half of diagram.ts).     *)
(*                                                                         *)
(* Strings are sequences of one-character strings, so that trim, split,    *)
(* join, endsWith, includes and replaceAll are computed as the code does.  *)
(***************************************************************************)
EXTENDS Integers, Sequences, FiniteSets, TLC

\* ------------------------------------------------------------------ bounds
MaxEvals == 2
MaxPending == 2
MaxCtx == 2
MaxInflight == 1
MaxServers == 2

\* ----------------------------------------------------------------- strings
ENTER == "\n"

IsSpace(c) == c \in {" ", "\t", "\n"}

RECURSIVE trimStart(_)
trimStart(s) ==
  IF s # <<>> /\ IsSpace(Head(s)) THEN trimStart(Tail(s)) ELSE s

RECURSIVE trimEnd(_)
trimEnd(s) ==
  IF s # <<>> /\ IsSpace(s[Len(s)]) THEN trimEnd(SubSeq(s, 1, Len(s) - 1)) ELSE s

trim(s) == trimEnd(trimStart(s))

endsWith(s, c) == s # <<>> /\ s[Len(s)] = c

\* mutant: the prefix is looked for one character too far
startsWith_Second(s, c) == Len(s) >= 2 /\ s[2] = c

startsWith(s, c) == s # <<>> /\ s[1] = c

RECURSIVE join(_, _)
join(lines, sep) ==
  IF lines = <<>> THEN <<>>
  ELSE IF Len(lines) = 1 THEN lines[1]
  ELSE lines[1] \o <<sep>> \o join(Tail(lines), sep)

RECURSIVE split(_, _)
split(s, sep) ==
  IF \E i \in 1..Len(s) : s[i] = sep
  THEN LET i == CHOOSE k \in 1..Len(s) : s[k] = sep /\ \A j \in 1..(k - 1) : s[j] # sep
       IN  <<SubSeq(s, 1, i - 1)>> \o split(SubSeq(s, i + 1, Len(s)), sep)
  ELSE <<s>>

\* ------------------------------------------------------- terminal input
L2p2 == <<"2", " ", "+", " ", "2">>
LOpen == <<" ", "a", " ", "{", " ">>
LClose == <<"}">>
LBlank == <<" ">>
LQuit == <<":", "q">>
LReload == <<":", "r">>
LRerun == <<":", "r", "r">>
LDiagram == <<":", "d">>

RawLines == {L2p2, LOpen, LClose, LBlank, LQuit, LReload, LRerun, LDiagram}

\* -------------------------------------------------------------- variables
VARIABLES
  pc,              \* "boot", "ready", "replaying", "exited"
  exitCode,        \* process exit status, -1 while running
  interpreter,     \* identity of the current Interpreter, 0 before bootstrap
  nextCtx,         \* number of interpreters built so far
  history,         \* the module-level history array
  mlHistory,       \* multilineState.history
  mlBrackets,      \* multilineState.brackets
  pendingReloads,  \* reload() calls awaiting initializeInterpreter
  replayQueue,     \* lines still to be written by onReloadInterpreter
  skipDiagram,     \* options.skipDiagram
  servers,         \* per started diagram server: interpreter its listener is bound to
  client,          \* dynamicDiagramClient: 0 = disabled stub, k = client of server k
  pendingClients,  \* clients built by initializeClient, assignment awaited
  evalLog,         \* evaluations made since the current interpreter was installed
  fed,             \* non-empty non-command lines handled since the last evaluation
  lastStep,        \* which step ran last
  notified,        \* interpreters handed to dynamicDiagramClient.onReload by that step
  lastReload,      \* the latest completed reload: its rerun flag and previousCommands
  tpc,             \* test run: "idle", "start", "validated", "built", "running", "done", "exited"
  texit,           \* exit status of the test run, -1 while running
  environment,     \* the project's nodes in traversal order
  filter,          \* the free-text filter argument
  options,         \* options.file, options.describe, options.test
  targets,         \* result of getTarget
  missReported,    \* a TestSearchMissError was logged by getTarget
  cursor,          \* position of environment.forEach
  successes,       \* the successes counter
  failures,        \* the failures array (tests only)
  executed         \* tests handed to interpreter.fork().exec, in order

replVars == <<pc, exitCode, interpreter, nextCtx, history, mlHistory,
              mlBrackets, pendingReloads, replayQueue, skipDiagram, servers, client,
              pendingClients, evalLog, fed, lastStep, notified, lastReload>>

testVars == <<tpc, texit, environment, filter, options, targets, missReported, cursor,
              successes, failures, executed>>

vars == <<replVars, testVars>>

\* ------------------------------------------------------------ multiline
finished(brackets) == Len(brackets) = 0

\* mutant: the line is not kept
multilineHandlerHistory_NoPush(h, line) == h

multilineHandlerHistory(h, line) == Append(h, line)

\* mutant: the closing brace is never popped
multilineHandlerBrackets_NoPop(brackets, line) ==
  IF endsWith(line, "{") THEN Append(brackets, "{") ELSE brackets

multilineHandlerBrackets(brackets, line) ==
  LET pushed == IF endsWith(line, "{") THEN Append(brackets, "{") ELSE brackets
  IN  IF endsWith(line, "}") /\ pushed # <<>>
      THEN SubSeq(pushed, 1, Len(pushed) - 1)
      ELSE pushed

multilineHandler(h, brackets, line) ==
  IF finished(multilineHandlerBrackets(brackets, line))
  THEN multilineHandlerHistory(h, line)
  ELSE <<>>

\* mutant: an open block is forgotten
isMultiline_OnlyOpener(brackets, line) == endsWith(line, "{")

isMultiline(brackets, line) == ~finished(brackets) \/ endsWith(line, "{")


\* -------------------------------------------------------------- commands
CmdQuit == {<<":", "q", "u", "i", "t">>, <<":", "q">>, <<":", "e", "x", "i", "t">>}
CmdReload == {<<":", "r", "e", "l", "o", "a", "d">>, <<":", "r">>}
CmdRerun == {<<":", "r", "e", "r", "u", "n">>, <<":", "r", "r">>}
CmdDiagram == {<<":", "d", "i", "a", "g", "r", "a", "m">>, <<":", "d">>}
CmdHelp == {<<":", "h", "e", "l", "p">>, <<":", "h">>}

commandOf(args) ==
  IF args[1] \in CmdQuit THEN "quit"
  ELSE IF args[1] \in CmdReload THEN "reload"
  ELSE IF args[1] \in CmdRerun THEN "rerun"
  ELSE IF args[1] \in CmdDiagram THEN "diagram"
  ELSE "help"

\* ---------------------------------------------------------- diagram client
clientOnReload(srv, c, ctx) == IF c = 0 THEN srv ELSE [srv EXCEPT ![c] = ctx]

onReloadClient(activateDiagram, selectedInterpreter) ==
  IF activateDiagram /\ client = 0
  THEN /\ skipDiagram' = ~activateDiagram
       /\ servers' = Append(servers, selectedInterpreter)
       /\ pendingClients' = Append(pendingClients, Len(servers) + 1)
       /\ client' = client
       /\ notified' = <<>>
  ELSE /\ servers' = clientOnReload(servers, client, selectedInterpreter)
       /\ notified' = <<selectedInterpreter>>
       /\ UNCHANGED <<skipDiagram, pendingClients, client>>

\* ------------------------------------------------------------ line handler
\* mutant: the unit is not recorded
historyPush_Skipped(h, unit) == h

historyPush(h, unit) == Append(h, unit)

interpreteLine(ctx, unit, lines) ==
  [unit |-> unit, ctx |-> ctx, lines |-> lines]

\* mutant: the diagram client is not told about the evaluation
evaluate_NoNotify(unit, line) ==
  \E errored \in BOOLEAN :
    /\ history' = historyPush(history, unit)
    /\ evalLog' = Append(evalLog, interpreteLine(interpreter, unit, Append(fed, line)))
    /\ servers' = servers
    /\ notified' = <<>>
    /\ fed' = <<>>
    /\ lastStep' = IF errored THEN "errored" ELSE "evaluated"

evaluate(unit, line) ==
  \E errored \in BOOLEAN :
    /\ history' = historyPush(history, unit)
    /\ evalLog' = Append(evalLog, interpreteLine(interpreter, unit, Append(fed, line)))
    /\ servers' = clientOnReload(servers, client, interpreter)
    /\ notified' = <<interpreter>>
    /\ fed' = <<>>
    /\ lastStep' = IF errored THEN "errored" ELSE "evaluated"

commandHandler(line) ==
  LET cmd == commandOf(split(line, " "))
  IN  /\ lastStep' = cmd
      /\ UNCHANGED <<history, evalLog, fed, mlHistory, mlBrackets>>
      /\ CASE cmd = "quit" ->
                /\ pc' = "exited"
                /\ exitCode' = 0
                /\ notified' = <<>>
                /\ UNCHANGED <<pendingReloads, skipDiagram, servers, client, pendingClients>>
           [] cmd \in {"reload", "rerun"} ->
                /\ pendingReloads' = Append(pendingReloads, cmd = "rerun")
                /\ notified' = <<>>
                /\ UNCHANGED <<pc, exitCode, skipDiagram, servers, client, pendingClients>>
           [] cmd = "diagram" ->
                /\ onReloadClient(TRUE, interpreter)
                /\ UNCHANGED <<pc, exitCode, pendingReloads>>
           [] OTHER ->
                /\ notified' = <<>>
                /\ UNCHANGED <<pc, exitCode, pendingReloads, skipDiagram, servers, client,
                               pendingClients>>

\* repl.on('line'): everything but replayQueue and lastReload, which the caller owns
onLine(raw) ==
  LET line == trim(raw)
  IN  /\ UNCHANGED <<interpreter, nextCtx>>
      /\ IF Len(line) = 0
         THEN /\ lastStep' = "blank"
              /\ notified' = <<>>
              /\ UNCHANGED <<pc, exitCode, history, mlHistory, mlBrackets, pendingReloads,
                             skipDiagram, servers, client, pendingClients, evalLog, fed>>
         ELSE IF startsWith(line, ":")
         THEN commandHandler(line)
         ELSE /\ UNCHANGED <<pc, exitCode, pendingReloads, skipDiagram, client, pendingClients>>
              /\ IF isMultiline(mlBrackets, line)
                 THEN LET multiline == multilineHandler(mlHistory, mlBrackets, line)
                      IN  IF Len(multiline) # 0
                          THEN /\ evaluate(join(multiline, "\n"), line)
                               /\ mlBrackets' = <<>>
                               /\ mlHistory' = <<>>
                          ELSE /\ mlHistory' = multilineHandlerHistory(mlHistory, line)
                               /\ mlBrackets' = multilineHandlerBrackets(mlBrackets, line)
                               /\ fed' = Append(fed, line)
                               /\ lastStep' = "accumulate"
                               /\ notified' = <<>>
                               /\ UNCHANGED <<history, evalLog, servers>>
                 ELSE /\ evaluate(line, line)
                      /\ UNCHANGED <<mlHistory, mlBrackets>>


\* ------------------------------------------------------- reload and rerun
Front(q) == SubSeq(q, 1, Len(q) - 1)

\* readline's write(): every segment closed by a line ending is emitted as a line
readlineWrite(data) == Front(split(data, ENTER))

RECURSIVE replayWrites(_)
replayWrites(previousCommands) ==
  IF previousCommands = <<>> THEN <<>>
  ELSE readlineWrite(Head(previousCommands) \o <<ENTER>>) \o replayWrites(Tail(previousCommands))

\* mutant: the history survives the reload
onReloadInterpreterHistory_Kept(h) == h

onReloadInterpreterHistory(h) == <<>>

onReloadInterpreterReplay(previousCommands, rerun) ==
  IF rerun THEN replayWrites(previousCommands) ELSE <<>>

\* ----------------------------------------------------------------- actions
None == <<>>

TestIdle ==
  /\ tpc = "idle"
  /\ texit = -1
  /\ environment = <<>>
  /\ filter = None
  /\ options = [file |-> None, describe |-> None, test |-> None]
  /\ targets = <<>>
  /\ missReported = FALSE
  /\ cursor = 0
  /\ successes = 0
  /\ failures = <<>>
  /\ executed = <<>>

NoReload == [rerun |-> FALSE, previous |-> <<>>]
NoStep == "none"

Init ==
  /\ pc = "boot"
  /\ exitCode = -1
  /\ skipDiagram \in BOOLEAN
  /\ interpreter = 0
  /\ nextCtx = 0
  /\ history = <<>>
  /\ mlHistory = <<>>
  /\ mlBrackets = <<>>
  /\ pendingReloads = <<>>
  /\ replayQueue = <<>>
  /\ servers = <<>>
  /\ client = 0
  /\ pendingClients = <<>>
  /\ evalLog = <<>>
  /\ fed = <<>>
  /\ lastStep = NoStep
  /\ notified = <<>>
  /\ lastReload = NoReload
  /\ TestIdle

\* how initializeInterpreter can fail: the auto-imported file is not a package of
\* the project (only with an autoImportPath), or building or validating throws
buildFailureCauses(autoImportPath) ==
  IF autoImportPath THEN {"badAutoImport", "buildFailed"} ELSE {"buildFailed"}

\* mutant: both failures exit with the status of the catch block
buildFailureStatus_Same(cause) == 12

\* process.exit(11) for the bad auto-import, process.exit(12) in the catch block
buildFailureStatus(cause) == IF cause = "badAutoImport" THEN 11 ELSE 12

\* replFn up to the first prompt: initializeInterpreter, then initializeClient
Boot ==
  /\ pc = "boot"
  /\ pc' = "ready"
  /\ interpreter' = nextCtx + 1
  /\ nextCtx' = nextCtx + 1
  /\ IF skipDiagram
     THEN UNCHANGED <<servers, client>>
     ELSE /\ servers' = Append(servers, nextCtx + 1)
          /\ client' = Len(servers) + 1
  /\ lastStep' = "boot"
  /\ notified' = <<>>
  /\ UNCHANGED <<exitCode, history, mlHistory, mlBrackets, pendingReloads,
                 replayQueue, skipDiagram, pendingClients, evalLog, fed, lastReload>>
  /\ UNCHANGED testVars

BootFail ==
  /\ pc = "boot"
  /\ \E autoImportPath \in BOOLEAN : \E cause \in buildFailureCauses(autoImportPath) :
       /\ pc' = "exited"
       /\ exitCode' = buildFailureStatus(cause)
       /\ lastStep' = cause
       /\ notified' = <<>>
  /\ UNCHANGED <<interpreter, nextCtx, history, mlHistory, mlBrackets,
                 pendingReloads, replayQueue, skipDiagram, servers, client, pendingClients,
                 evalLog, fed, lastReload>>
  /\ UNCHANGED testVars

LineAllowed(raw) ==
  LET line == trim(raw)
      cmd == commandOf(split(line, " "))
  IN  IF Len(line) = 0 THEN TRUE
      ELSE IF startsWith(line, ":")
      THEN /\ cmd \in {"reload", "rerun"} => Len(pendingReloads) < MaxInflight
           /\ cmd = "diagram" /\ client = 0 => Len(servers) < MaxServers
      ELSE IF isMultiline(mlBrackets, line) /\ Len(multilineHandler(mlHistory, mlBrackets, line)) = 0
      THEN Len(mlHistory) < MaxPending
      ELSE Len(evalLog) < MaxEvals

\* the line-reader delivers one line typed by the user
UserLine ==
  /\ pc = "ready"
  /\ \E raw \in RawLines :
       /\ LineAllowed(raw)
       /\ onLine(raw)
  /\ lastReload' = NoReload
  /\ UNCHANGED replayQueue
  /\ UNCHANGED testVars

\* the await in onReloadClient resumes and assigns dynamicDiagramClient
InstallClient ==
  /\ pc = "ready"
  /\ pendingClients # <<>>
  /\ client' = Head(pendingClients)
  /\ pendingClients' = Tail(pendingClients)
  /\ UNCHANGED <<pc, exitCode, interpreter, nextCtx, history, mlHistory,
                 mlBrackets, pendingReloads, replayQueue, skipDiagram, servers, evalLog,
                 fed, lastStep, notified, lastReload>>
  /\ UNCHANGED testVars

RemoveAt(q, i) == SubSeq(q, 1, i - 1) \o SubSeq(q, i + 1, Len(q))

\* reload(): initializeInterpreter resolved, setInterpreter starts (onReloadInterpreter)
ReloadDone ==
  /\ pc = "ready"
  /\ pendingClients = <<>>
  /\ nextCtx < MaxCtx
  /\ \E i \in 1..Len(pendingReloads) :
       LET rerun == pendingReloads[i]
           previousCommands == history
       IN  /\ pendingReloads' = RemoveAt(pendingReloads, i)
           /\ interpreter' = nextCtx + 1
           /\ nextCtx' = nextCtx + 1
           /\ history' = onReloadInterpreterHistory(history)
           /\ replayQueue' = onReloadInterpreterReplay(previousCommands, rerun)
           /\ lastReload' = [rerun |-> rerun, previous |-> previousCommands]
  /\ evalLog' = <<>>
  /\ pc' = "replaying"
  /\ lastStep' = "setInterpreter"
  /\ notified' = <<>>
  /\ UNCHANGED <<exitCode, mlHistory, mlBrackets, skipDiagram, servers, client,
                 pendingClients, fed>>
  /\ UNCHANGED testVars

\* reload(): initializeInterpreter failed and exited the process
ReloadFail ==
  /\ pc = "ready"
  /\ pendingClients = <<>>
  /\ \E i \in 1..Len(pendingReloads), autoImportPath \in BOOLEAN :
     \E cause \in buildFailureCauses(autoImportPath) :
       /\ pendingReloads' = RemoveAt(pendingReloads, i)
       /\ pc' = "exited"
       /\ exitCode' = buildFailureStatus(cause)
       /\ lastStep' = cause
       /\ notified' = <<>>
  /\ UNCHANGED <<interpreter, nextCtx, history, mlHistory, mlBrackets,
                 replayQueue, skipDiagram, servers, client, pendingClients, evalLog, fed,
                 lastReload>>
  /\ UNCHANGED testVars

\* onReloadInterpreter: repl.write(command + ENTER) delivers one replayed line
ReplayLine ==
  /\ pc = "replaying"
  /\ replayQueue # <<>>
  /\ onLine(Head(replayQueue))
  /\ replayQueue' = Tail(replayQueue)
  /\ UNCHANGED lastReload
  /\ UNCHANGED testVars

\* onReloadInterpreter's last prompt, then reload() calls reloadClient
ReplayEnd ==
  /\ pc = "replaying"
  /\ replayQueue = <<>>
  /\ pc' = "ready"
  /\ onReloadClient(skipDiagram, interpreter)
  /\ lastStep' = "reloaded"
  /\ UNCHANGED <<exitCode, interpreter, nextCtx, history, mlHistory, mlBrackets,
                 pendingReloads, replayQueue, evalLog, fed, lastReload>>
  /\ UNCHANGED testVars

Next ==
  \/ Boot
  \/ BootFail
  \/ UserLine
  \/ InstallClient
  \/ ReloadDone
  \/ ReloadFail
  \/ ReplayLine
  \/ ReplayEnd

Spec == Init /\ [][Next]_vars


\* =================================================================== tests
MaxOnly == 2

\* ----------------------------------------------------------- more strings
RECURSIVE replaceAll(_, _)
replaceAll(s, c) ==
  IF s = <<>> THEN <<>>
  ELSE IF Head(s) = c THEN replaceAll(Tail(s), c)
  ELSE <<Head(s)>> \o replaceAll(Tail(s), c)

includes(s, sub) ==
  \E i \in 1..(Len(s) - Len(sub) + 1) : SubSeq(s, i, i + Len(sub) - 1) = sub

quoted(s) == <<"\"">> \o s \o <<"\"">>

sanitize(value) == replaceAll(value, "\"")

\* --------------------------------------------------------- the environment
StestSum == <<"t", "e", "s", "t", "S", "u", "m">>
StestSub == <<"t", "e", "s", "t", "S", "u", "b">>
StestSumNeg == <<"t", "e", "s", "t", "S", "u", "m", "N", "e", "g">>
Ssum == <<"s", "u", "m">>
SSum == <<"S", "u", "m">>
SSub == <<"S", "u", "b">>
SpDotQuotedD == <<"p", ".", "\"", "d", "\"">>
SfileP == <<"p", ".", "w">>
SfileQ == <<"q", ".", "w">>
SfileMissing == <<"f", ".", "w", "l", "k">>

PackageNode(name, fileName, parent) ==
  [kind |-> "Package", name |-> name, fileName |-> fileName, isOnly |-> FALSE, parent |-> parent]
DescribeNode(name, parent) ==
  [kind |-> "Describe", name |-> quoted(name), fileName |-> None, isOnly |-> FALSE, parent |-> parent]
TestNode(name, parent, isOnly) ==
  [kind |-> "Test", name |-> quoted(name), fileName |-> None, isOnly |-> isOnly, parent |-> parent]

\* one file with a describe, two tests in it and a test beside it
SmallProject(only) ==
  << PackageNode(<<"p">>, SfileP, 0),
     DescribeNode(<<"d">>, 1),
     TestNode(StestSum, 2, 3 \in only),
     TestNode(StestSub, 2, 4 \in only),
     TestNode(StestSumNeg, 1, 5 \in only) >>

\* the same with a second file
FullProject(only) ==
  SmallProject(only) \o
  << PackageNode(<<"q">>, SfileQ, 0),
     DescribeNode(<<"e">>, 6),
     TestNode(StestSum, 7, 8 \in only) >>

Projects ==
  { SmallProject(only) : only \in {o \in SUBSET {3, 4, 5} : Cardinality(o) <= MaxOnly} }
  \cup { FullProject(only) : only \in {o \in SUBSET {3, 5, 8} : Cardinality(o) <= MaxOnly} }

Filters == {None, Ssum, SSum, SSub, SpDotQuotedD}
FileOptions == {None, SfileP, SfileMissing}
DescribeOptions == {None, <<"d">>, <<"e">>}
TestOptions == {None, StestSum}

\* -------------------------------------------------------------- traversal
RECURSIVE isDescendant(_, _, _)
isDescendant(env, base, i) ==
  IF env[i].parent = base THEN TRUE
  ELSE IF env[i].parent = 0 THEN FALSE
  ELSE isDescendant(env, base, env[i].parent)

\* node.descendants, as indices in traversal order; 0 is the Environment itself
descendants(env, base) ==
  LET in(i) == isDescendant(env, base, i)
  IN  SelectSeq([i \in 1..Len(env) |-> i], in)

RECURSIVE fullyQualifiedName(_, _)
fullyQualifiedName(env, i) ==
  IF env[i].parent = 0 THEN env[i].name
  ELSE fullyQualifiedName(env, env[i].parent) \o <<".">> \o env[i].name

first(q) == IF q = <<>> THEN 0 ELSE Head(q)

\* --------------------------------------------------------- target resolution
\* mutant: only the file option is checked against the filter
validateParameters_FileOnly(f, o) == ~(f # None /\ o.file # None)

validateParameters(f, o) == ~(f # None /\ (o.file # None \/ o.describe # None \/ o.test # None))

Miss == -1

\* mutant: a missing file or describe falls back to the whole environment
getBaseNode_NoMiss(env, f, o) ==
  IF f # None THEN 0
  ELSE
    LET isFile(i) == env[i].kind = "Package" /\ env[i].fileName = o.file
        byFile == IF o.file # None THEN first(SelectSeq(descendants(env, 0), isFile)) ELSE 0
        isDescribe(i) == env[i].kind = "Describe" /\ env[i].name = quoted(o.describe)
        byDescribe == first(SelectSeq(descendants(env, byFile), isDescribe))
    IN  IF o.describe # None THEN byDescribe ELSE byFile

getBaseNode(env, f, o) ==
  IF f # None THEN 0
  ELSE
    LET isFile(i) == env[i].kind = "Package" /\ env[i].fileName = o.file
        byFile == IF o.file # None THEN first(SelectSeq(descendants(env, 0), isFile)) ELSE 0
        isDescribe(i) == env[i].kind = "Describe" /\ env[i].name = quoted(o.describe)
        byDescribe == first(SelectSeq(descendants(env, byFile), isDescribe))
    IN  IF o.file # None /\ byFile = 0 THEN Miss
        ELSE IF o.describe # None
        THEN IF byDescribe = 0 THEN Miss ELSE byDescribe
        ELSE byFile

\* mutant: the test option is ignored
getTestFilter_AnyTest(env, f, o, i) == env[i].kind = "Test"

getTestFilter(env, f, o, i) ==
  IF f # None \/ o.test = None
  THEN env[i].kind = "Test"
  ELSE env[i].kind = "Test" /\ env[i].name = quoted(o.test)

\* mutant: the free-text filter drops nothing
testMatches_All(env, filterTest, i) == TRUE

testMatches(env, filterTest, i) ==
  filterTest = None \/ includes(sanitize(fullyQualifiedName(env, i)), filterTest)

possibleTargets(env, f, o) ==
  LET keep(i) == getTestFilter(env, f, o, i)
  IN  SelectSeq(descendants(env, getBaseNode(env, f, o)), keep)

onlyTarget(env, candidates) ==
  LET only(i) == env[i].isOnly
  IN  first(SelectSeq(candidates, only))

\* mutant: the free-text filter is applied before looking for an only test
getTarget_FilterFirst(env, f, o) ==
  IF getBaseNode(env, f, o) = Miss THEN <<>>
  ELSE
    LET filterTest == sanitize(f)
        matches(i) == testMatches(env, filterTest, i)
        matching == SelectSeq(possibleTargets(env, f, o), matches)
    IN  IF onlyTarget(env, matching) # 0
        THEN <<onlyTarget(env, matching)>>
        ELSE matching

getTarget(env, f, o) ==
  IF getBaseNode(env, f, o) = Miss THEN <<>>
  ELSE
    LET candidates == possibleTargets(env, f, o)
        filterTest == sanitize(f)
        matches(i) == testMatches(env, filterTest, i)
    IN  IF onlyTarget(env, candidates) # 0
        THEN <<onlyTarget(env, candidates)>>
        ELSE SelectSeq(candidates, matches)

\* ------------------------------------------------------------ the test run
InSeq(q, x) == \E k \in 1..Len(q) : q[k] = x

TestInit ==
  /\ pc = "test"
  /\ exitCode = -1
  /\ skipDiagram = TRUE
  /\ interpreter = 0
  /\ nextCtx = 0
  /\ history = <<>>
  /\ mlHistory = <<>>
  /\ mlBrackets = <<>>
  /\ pendingReloads = <<>>
  /\ replayQueue = <<>>
  /\ servers = <<>>
  /\ client = 0
  /\ pendingClients = <<>>
  /\ evalLog = <<>>
  /\ fed = <<>>
  /\ lastStep = NoStep
  /\ notified = <<>>
  /\ lastReload = NoReload
  /\ tpc = "start"
  /\ texit = -1
  /\ environment \in Projects
  /\ filter \in Filters
  /\ options \in [file : FileOptions, describe : DescribeOptions, test : TestOptions]
  /\ targets = <<>>
  /\ missReported = FALSE
  /\ cursor = 0
  /\ successes = 0
  /\ failures = <<>>
  /\ executed = <<>>

\* validateParameters passes
Validate ==
  /\ tpc = "start"
  /\ validateParameters(filter, options)
  /\ tpc' = "validated"
  /\ UNCHANGED <<texit, environment, filter, options, targets, missReported, cursor,
                 successes, failures, executed>>
  /\ UNCHANGED replVars

\* validateParameters throws: handleError, process.exit(1)
RejectParameters ==
  /\ tpc = "start"
  /\ ~validateParameters(filter, options)
  /\ tpc' = "exited"
  /\ texit' = 1
  /\ UNCHANGED <<environment, filter, options, targets, missReported, cursor, successes,
                 failures, executed>>
  /\ UNCHANGED replVars

\* buildEnvironmentForProject and validateEnvironment succeed
BuildEnvironment ==
  /\ tpc = "validated"
  /\ tpc' = "built"
  /\ UNCHANGED <<texit, environment, filter, options, targets, missReported, cursor,
                 successes, failures, executed>>
  /\ UNCHANGED replVars

\* buildEnvironmentForProject or validateEnvironment throws: process.exit(1)
BuildEnvironmentFail ==
  /\ tpc = "validated"
  /\ tpc' = "exited"
  /\ texit' = 1
  /\ UNCHANGED <<environment, filter, options, targets, missReported, cursor, successes,
                 failures, executed>>
  /\ UNCHANGED replVars

\* getTarget, then the interpreter and the counters are set up
Resolve ==
  /\ tpc = "built"
  /\ targets' = getTarget(environment, filter, options)
  /\ missReported' = (getBaseNode(environment, filter, options) = Miss)
  /\ cursor' = 1
  /\ successes' = 0
  /\ failures' = <<>>
  /\ tpc' = "running"
  /\ UNCHANGED <<texit, environment, filter, options, executed>>
  /\ UNCHANGED replVars

\* mutant: the first failing test ends the traversal
Visit_StopAtFailure ==
  /\ tpc = "running"
  /\ cursor <= Len(environment)
  /\ IF environment[cursor].kind = "Test" /\ InSeq(targets, cursor)
     THEN /\ executed' = Append(executed, cursor)
          /\ \E passed \in BOOLEAN :
               IF passed
               THEN /\ successes' = successes + 1
                    /\ cursor' = cursor + 1
                    /\ UNCHANGED failures
               ELSE /\ failures' = Append(failures, cursor)
                    /\ cursor' = Len(environment) + 1
                    /\ UNCHANGED successes
     ELSE /\ cursor' = cursor + 1
          /\ UNCHANGED <<executed, successes, failures>>
  /\ UNCHANGED <<tpc, texit, environment, filter, options, targets, missReported>>
  /\ UNCHANGED replVars

\* one callback of environment.forEach
Visit ==
  /\ tpc = "running"
  /\ cursor <= Len(environment)
  /\ cursor' = cursor + 1
  /\ IF environment[cursor].kind = "Test" /\ InSeq(targets, cursor)
     THEN /\ executed' = Append(executed, cursor)
          /\ \E passed \in BOOLEAN :
               IF passed
               THEN successes' = successes + 1 /\ UNCHANGED failures
               ELSE failures' = Append(failures, cursor) /\ UNCHANGED successes
     ELSE UNCHANGED <<executed, successes, failures>>
  /\ UNCHANGED <<tpc, texit, environment, filter, options, targets, missReported>>
  /\ UNCHANGED replVars

\* the summary is logged; process.exit(2) when failures.length
Summary ==
  /\ tpc = "running"
  /\ cursor > Len(environment)
  /\ IF Len(failures) # 0
     THEN tpc' = "exited" /\ texit' = 2
     ELSE tpc' = "done" /\ texit' = 0
  /\ UNCHANGED <<environment, filter, options, targets, missReported, cursor, successes,
                 failures, executed>>
  /\ UNCHANGED replVars

TestNext ==
  \/ Validate
  \/ RejectParameters
  \/ BuildEnvironment
  \/ BuildEnvironmentFail
  \/ Resolve
  \/ Visit
  \/ Summary

TestSpec == TestInit /\ [][TestNext]_vars


\* ================================================================== claims
Units(log) == [k \in 1..Len(log) |-> log[k].unit]

Evaluated == Len(evalLog') = Len(evalLog) + 1

\* C1: while a rebuild started by :reload or :rerun is in flight, no unit is
\* evaluated; every evaluation happens with no reload pending, so never on a
\* context that a pending reload is about to discard.
C1_NoEvaluationDuringRebuild == [][Evaluated => pendingReloads = <<>>]_vars

\* C2: rerun law -- when a :rerun has completed and the prompt is back, the
\* evaluations made since the new interpreter was installed are exactly the
\* n units recorded before, in the original order, all on the new interpreter.
C2_RerunLaw ==
  (lastStep = "reloaded" /\ lastReload.rerun) =>
    /\ Units(evalLog) = lastReload.previous
    /\ \A k \in 1..Len(evalLog) : evalLog[k].ctx = interpreter

\* net depth of line-ending block markers over a sequence of lines
RECURSIVE openDepth(_)
openDepth(lines) ==
  IF lines = <<>> THEN 0
  ELSE LET before == openDepth(Front(lines))
           last == lines[Len(lines)]
       IN  IF endsWith(last, "{") THEN before + 1
           ELSE IF endsWith(last, "}") /\ before > 0 THEN before - 1
           ELSE before

FirstBalancedAtEnd(lines) ==
  /\ openDepth(lines) = 0
  /\ \A n \in 1..(Len(lines) - 1) : openDepth(SubSeq(lines, 1, n)) > 0

\* C3: N non-empty, non-command lines whose depth first returns to 0 on line N
\* yield exactly one unit, on line N and not earlier, equal to the N trimmed
\* lines joined by newline; afterwards pendingLines is empty and openDepth 0.
C3_BalancedLinesMakeOneUnit ==
  /\ \A k \in 1..Len(evalLog) :
       /\ evalLog[k].unit = join(evalLog[k].lines, "\n")
       /\ FirstBalancedAtEnd(evalLog[k].lines)
       /\ \A n \in 1..Len(evalLog[k].lines) : evalLog[k].lines[n] = trim(evalLog[k].lines[n])
  /\ \A n \in 1..Len(fed) : openDepth(SubSeq(fed, 1, n)) > 0
  /\ fed = <<>> => (mlHistory = <<>> /\ mlBrackets = <<>>)

C3_Witness ==
  /\ evalLog # <<>>
  /\ Len(evalLog[Len(evalLog)].lines) = 3
  /\ fed = <<>>

\* C4: while a block is open (openDepth > 0) nothing is evaluated and nothing
\* is appended to the history, until a line ending with a closer brings the
\* depth back to 0.
C4_NoUnitWhileBlockOpen ==
  [][(mlBrackets # <<>> /\ (Evaluated \/ Len(history') > Len(history))) =>
       /\ mlBrackets' = <<>>
       /\ Len(mlBrackets) = 1
       /\ Evaluated
       /\ LET lines == evalLog'[Len(evalLog')].lines
          IN  endsWith(lines[Len(lines)], "}")]_vars

C4_Witness ==
  /\ Len(mlBrackets) > 0
  /\ Len(mlHistory) >= 2
  /\ ~endsWith(mlHistory[Len(mlHistory)], "}")
  /\ lastStep = "accumulate"

\* C5: when :reload completes the interpreter is a freshly built one, the
\* history is empty and nothing was replayed, whatever the history was.
C5_ReloadResets ==
  (lastStep \in {"setInterpreter", "reloaded"} /\ ~lastReload.rerun) =>
    /\ history = <<>>
    /\ evalLog = <<>>
    /\ replayQueue = <<>>
    /\ interpreter = nextCtx
    /\ nextCtx >= 2

C5_Witness ==
  /\ lastStep = "reloaded"
  /\ ~lastReload.rerun
  /\ lastReload.previous # <<>>
  /\ history = <<>>

\* C6: every unit handed to evaluation is appended to the history exactly
\* once, in order, whether it errors or not, and nothing else is appended;
\* :quit exits with code 0 and leaves the history as it was.
C6_HistoryIsWhatWasEvaluated ==
  /\ history = Units(evalLog)
  /\ lastStep = "quit" => (pc = "exited" /\ exitCode = 0)

C6_Witness ==
  /\ lastStep = "quit"
  /\ exitCode = 0
  /\ history = <<L2p2>>


Resolved == cursor >= 1

TargetNames == [k \in 1..Len(targets) |-> sanitize(environment[targets[k]].name)]

OnlyCandidates ==
  {i \in 1..Len(environment) :
     InSeq(possibleTargets(environment, filter, options), i) /\ environment[i].isOnly}

Least(S) == CHOOSE i \in S : \A j \in S : i <= j

\* C7: only-tag precedence -- whenever some candidate test is marked only, the
\* result is the single first only-marked candidate and the free-text filter
\* is not applied; so with A only and a filter matching just B and C, [A].
C7_OnlyTagPrecedence ==
  (Resolved /\ OnlyCandidates # {}) => targets = <<Least(OnlyCandidates)>>

C7_Witness ==
  /\ Resolved
  /\ environment = SmallProject({4})
  /\ filter = SSum
  /\ targets = <<4>>
  /\ ~testMatches(environment, sanitize(filter), 4)

\* C8 as stated: the filter "sum" over tests testSum, testSub, testSumNeg
\* selects testSum and testSumNeg, in that order.
C8_LowercaseSumSelects ==
  (Resolved /\ environment = SmallProject({}) /\ filter = Ssum) =>
    TargetNames = <<StestSum, StestSumNeg>>

\* C8 amended: the match is case-sensitive -- the filter "Sum" selects testSum
\* and testSumNeg in declaration order and excludes testSub, and the filter
\* "sum" selects nothing.
C8_CaseSensitiveSumSelects ==
  (Resolved /\ environment = SmallProject({})) =>
    /\ filter = SSum => TargetNames = <<StestSum, StestSumNeg>>
    /\ filter = Ssum => targets = <<>>

C8_Witness ==
  /\ Resolved
  /\ environment = SmallProject({})
  /\ filter = SSum
  /\ Len(targets) = 2

FileMiss ==
  /\ options.file # None
  /\ ~\E i \in 1..Len(environment) :
        environment[i].kind = "Package" /\ environment[i].fileName = options.file

DescribeMiss ==
  /\ options.describe # None
  /\ ~\E i \in 1..Len(environment) :
        environment[i].kind = "Describe" /\ environment[i].name = quoted(options.describe)

\* C9: when the file or the describe filter names something that is not in
\* the environment, getTarget returns the empty list and reports the miss;
\* the run executes no test, counts 0 passing and 0 failing and does not end
\* with a non-zero exit status.
C9_SelectionMissIsNotFatal ==
  (Resolved /\ (FileMiss \/ DescribeMiss)) =>
    /\ targets = <<>>
    /\ missReported
    /\ executed = <<>>
    /\ successes = 0
    /\ failures = <<>>
    /\ tpc \in {"running", "done"}
    /\ texit \in {-1, 0}

C9_Witness ==
  /\ tpc = "done"
  /\ options.file = SfileMissing
  /\ FileMiss
  /\ missReported
  /\ texit = 0

Count(q, x) == Cardinality({k \in 1..Len(q) : q[k] = x})

\* C10: a failing test does not stop the others -- every target is executed
\* exactly once, successes + failures is the number of targets, and the exit
\* status is 2 exactly when at least one test failed.
C10_EveryTargetRunsOnce ==
  /\ Resolved =>
       /\ \A k \in 1..Len(targets) :
            Count(executed, targets[k]) = (IF targets[k] < cursor THEN 1 ELSE 0)
       /\ \A k \in 1..Len(executed) : InSeq(targets, executed[k])
       /\ successes + Len(failures) = Len(executed)
  /\ (Resolved /\ tpc \in {"done", "exited"}) =>
       /\ Len(executed) = Len(targets)
       /\ successes + Len(failures) = Len(targets)
  /\ tpc \in {"done", "exited"} => (texit = 2 <=> Len(failures) >= 1)

C10_Witness ==
  /\ tpc = "exited"
  /\ texit = 2
  /\ Len(targets) = 3
  /\ failures = <<targets[1]>>
  /\ successes = 2


FilterConflict ==
  /\ filter # None
  /\ options.file # None \/ options.describe # None \/ options.test # None

\* C11: a free-text filter given together with a file, describe or test
\* option is rejected before anything else -- the environment is not built,
\* no target is resolved, no test is executed, and the process ends with an
\* error status.
C11_FilterConflictIsRejected ==
  FilterConflict =>
    /\ tpc \in {"start", "exited"}
    /\ tpc = "exited" => texit = 1
    /\ ~Resolved
    /\ targets = <<>>
    /\ ~missReported
    /\ executed = <<>>
    /\ successes = 0
    /\ failures = <<>>

C11_Witness ==
  /\ tpc = "exited"
  /\ texit = 1
  /\ filter = SSum
  /\ options.file = None
  /\ options.describe = None
  /\ options.test = StestSum


BuildFailed == pc # "exited" /\ pc' = "exited" /\ lastStep' # "quit"

\* C12: a failed rebuild (bootstrap, :reload or :rerun) is fatal -- no new
\* interpreter is installed, the history is neither cleared nor replayed, the
\* session never becomes ready again, and the exit status is non-zero, with
\* the bad auto-import status different from the build-failure status.
C12_FailedBuildIsFatal ==
  [][/\ BuildFailed =>
          /\ interpreter' = interpreter
          /\ nextCtx' = nextCtx
          /\ history' = history
          /\ evalLog' = evalLog
          /\ replayQueue' = replayQueue
          /\ exitCode' # 0
          /\ lastStep' \in {"badAutoImport", "buildFailed"}
          /\ lastStep' = "badAutoImport" => exitCode' = 11
          /\ lastStep' = "buildFailed" => exitCode' = 12
     /\ pc = "exited" => pc' = "exited"]_vars

C12_Witness ==
  /\ pc = "exited"
  /\ lastStep = "badAutoImport"
  /\ exitCode = 11
  /\ history # <<>>
  /\ pendingReloads = <<>>


HasSigilLine(unit) ==
  \E n \in 1..Len(split(unit, "\n")) :
    LET l == trim(split(unit, "\n")[n])
    IN  l # <<>> /\ l[1] = ":"

\* C13: a line that starts with ':' after trimming is never handed to the
\* interpreter -- no evaluated unit and no history entry contains such a
\* line, also while a multiline unit is accumulated and during a replay.
C13_SigilLinesAreNeverEvaluated ==
  /\ \A k \in 1..Len(evalLog) : ~HasSigilLine(evalLog[k].unit)
  /\ \A k \in 1..Len(history) : ~HasSigilLine(history[k])
  /\ \A k \in 1..Len(mlHistory) : ~HasSigilLine(mlHistory[k])
  /\ \A k \in 1..Len(replayQueue) : ~HasSigilLine(replayQueue[k])

C13_Witness ==
  /\ lastStep = "rerun"
  /\ mlHistory # <<>>
  /\ history # <<>>
  /\ pendingReloads # <<>>


\* C14: between handlers there is never more than one snapshot listener, and
\* it is bound to the interpreter the session evaluates against, so a viewer
\* connecting at any moment gets a snapshot of the current interpreter.
C14_ListenerFollowsInterpreter ==
  pc = "ready" =>
    /\ Len(servers) <= 1
    /\ \A k \in 1..Len(servers) : servers[k] = interpreter

\* C15: the listener bootstrap happens at most once per session, an enabled
\* bridge stays enabled, and :diagram issued when the bridge is enabled or
\* while an enable is still completing starts no second listener.
C15_BootstrapAtMostOnce ==
  [][/\ Len(servers') <= 1
     /\ client > 0 => client' > 0
     /\ (lastStep' = "diagram" /\ (client > 0 \/ pendingClients # <<>>)) =>
          Len(servers') = Len(servers)]_vars


ScopeFiles ==
  {i \in 1..Len(environment) :
     environment[i].kind = "Package" /\ environment[i].fileName = options.file}

ScopeFile ==
  IF options.file = None THEN 0
  ELSE IF ScopeFiles = {} THEN Miss ELSE Least(ScopeFiles)

ScopeGroups ==
  {i \in 1..Len(environment) :
     /\ environment[i].kind = "Describe"
     /\ environment[i].name = quoted(options.describe)
     /\ ScopeFile # Miss
     /\ isDescendant(environment, ScopeFile, i)}

\* the base scope: whole environment, matched file package or matched group
ScopeBase ==
  IF filter # None THEN 0
  ELSE IF ScopeFile = Miss THEN Miss
  ELSE IF options.describe = None THEN ScopeFile
  ELSE IF ScopeGroups = {} THEN Miss ELSE Least(ScopeGroups)

InScope(i) == ScopeBase # Miss /\ isDescendant(environment, ScopeBase, i)

PassesFilter(i) ==
  /\ environment[i].kind = "Test"
  /\ IF filter # None
     THEN includes(sanitize(fullyQualifiedName(environment, i)), sanitize(filter))
     ELSE options.test = None \/ environment[i].name = quoted(options.test)

TargetSet == {targets[k] : k \in 1..Len(targets)}

\* C17: with no only-marked candidate, getTarget returns exactly the tests of
\* the base scope that pass the test-name filter or the free-text filter,
\* each once, in traversal order; and the result is always a duplicate-free
\* subsequence of the base scope's traversal.
C17_TargetsAreTheFilteredScope ==
  Resolved =>
    /\ \A k \in 1..Len(targets) : \A l \in 1..Len(targets) :
         k < l => targets[k] < targets[l]
    /\ \A i \in TargetSet : InScope(i) /\ environment[i].kind = "Test"
    /\ OnlyCandidates = {} =>
         TargetSet = {i \in 1..Len(environment) : InScope(i) /\ PassesFilter(i)}

C17_Witness ==
  /\ Resolved
  /\ environment = FullProject({})
  /\ options.file = SfileP
  /\ options.describe = <<"d">>
  /\ options.test = StestSum
  /\ targets = <<3>>


MultilineStep ==
  /\ Evaluated => mlBrackets' = <<>> /\ mlHistory' = <<>>
  /\ (Evaluated /\ mlBrackets = <<>>) =>
       /\ UNCHANGED <<mlHistory, mlBrackets>>
       /\ evalLog'[Len(evalLog')].unit = history'[Len(history')]
       /\ ~includes(evalLog'[Len(evalLog')].unit, <<"\n">>)
       /\ ~endsWith(evalLog'[Len(evalLog')].unit, "{")
  /\ Len(fed') = Len(fed) + 1 =>
       /\ lastStep' = "accumulate"
       /\ mlBrackets # <<>> \/ endsWith(fed'[Len(fed')], "{")
       /\ mlHistory' = Append(mlHistory, fed'[Len(fed')])

\* C18: between line events the open-block depth is never negative and the
\* pending lines are empty exactly when the depth is 0; a unit is flushed
\* only when the depth is back to 0; and a line that neither opens a block
\* nor arrives inside an open block is evaluated at once, as it is, without
\* changing the multiline state.
C18_MultilineStateInvariant ==
  /\ [](Len(mlBrackets) >= 0 /\ (mlHistory = <<>> <=> mlBrackets = <<>>))
  /\ [][MultilineStep]_vars

C18_Witness ==
  /\ Len(evalLog) = 2
  /\ Len(evalLog[1].lines) >= 2
  /\ Len(evalLog[2].lines) = 1
  /\ lastStep = "evaluated"
  /\ mlHistory = <<>>
  /\ mlBrackets = <<>>
  /\ history = <<evalLog[1].unit, evalLog[2].unit>>


\* C19: :rerun preserves the history -- when a rerun completes, the history
\* equals, unit for unit and in order, the history recorded just before the
\* rebuild completed, whatever the multiline state was when :rerun was
\* issued and also for units that span several lines.
C19_RerunPreservesHistory ==
  (lastStep = "reloaded" /\ lastReload.rerun) => history = lastReload.previous


\* C20: :reload and :rerun leave the diagram bridge's enabled/disabled state
\* unchanged -- no step of a rebuild (installing the interpreter, replaying
\* the history, refreshing the client) starts a listener, installs a client
\* or flips the skip option; only :diagram enables the bridge.
C20_ReloadKeepsBridgeState ==
  [][(pc = "replaying" \/ pc' = "replaying") =>
       /\ Len(servers') = Len(servers)
       /\ pendingClients' = pendingClients
       /\ client' = client
       /\ skipDiagram' = skipDiagram]_vars

====
